---- MODULE Spec2Model ----
(***************************************************************************)
(* Interrupt dispatch layer of axplat-riscv64-sg2002 (src/src/irq.rs).     *)
(*                                                                         *)
(* Every hart runs one call of the IrqIf interface at a time: set_enable,  *)
(* register, unregister or handle.  A handler invoked by handle may itself *)
(* call set_enable, register or unregister before it returns.  The shared  *)
(* state is the two singleton slots, the device handler table and the PLIC *)
(* behind its SpinNoIrq lock.                                              *)
(*                                                                         *)
(* A usize word is kept as its top bit (intr) and its low 63 bits (code),  *)
(* so INTC_IRQ_BASE = 1 << 63 is the word with intr set and code 0.  All   *)
(* device numbers used are below 2^31, so `irq as u32` keeps the code.     *)
(***************************************************************************)
EXTENDS Integers, Sequences, FiniteSets, TLC

\* ---------------------------------------------------------------- bounds
NumHarts == 2
\* calls made in one run, by all harts and handlers together
MaxCalls == 3

\* hart indexes and hart counts handed to send_ipi
MaxCpu == 4

\* ------------------------------------------------------------- constants
MAX_IRQ_COUNT == 1024
PLIC_PRIORITY == 6

Harts == 0 .. (NumHarts - 1)
NoHart == 0 - 1
NULL == "NULL"
Handlers == {"H1", "H2"}

W(intr, code) == [intr |-> intr, code |-> code]
INTC_IRQ_BASE == W(TRUE, 0)
S_SOFT == W(TRUE, INTC_IRQ_BASE.code + 1)
S_TIMER == W(TRUE, INTC_IRQ_BASE.code + 5)
S_EXT == W(TRUE, INTC_IRQ_BASE.code + 9)
UnknownCause == W(TRUE, INTC_IRQ_BASE.code + 2)
Dev(n) == W(FALSE, n)

\* device-side numbers handed to the interface: the reserved number 0, the
\* first and the last table index, and the first number past the table
DevCodes == {0, 1, MAX_IRQ_COUNT - 1, MAX_IRQ_COUNT}
DevIrqs == {Dev(n) : n \in DevCodes}
Causes == {S_TIMER, S_SOFT, S_EXT, UnknownCause} \cup DevIrqs
\* indexes of the handler table that the inputs can touch
TableIdx == {n \in DevCodes : n < MAX_IRQ_COUNT}
\* interrupt sources of the controller that the inputs can touch
Sources == {n \in DevCodes : n >= 1 /\ n < MAX_IRQ_COUNT}
\* set_enable is called directly with the causes whose controller cell exists
EnableCauses == {c \in Causes : c.intr \/ c.code < MAX_IRQ_COUNT}

\* the context is computed from the logical id without the missing hart 0
this_context_NoOffset(h) == h * 2
this_context(h) == (h + 1) * 2
Contexts == {this_context(h) : h \in Harts}

\* the arm for the other CPU-side causes does nothing instead of panicking
with_cause_NoPanic(cause) ==
    IF cause = S_TIMER THEN "S_TIMER"
    ELSE IF cause = S_SOFT THEN "S_SOFT"
    ELSE IF cause = S_EXT THEN "S_EXT"
    ELSE IF ~cause.intr THEN "EX_IRQ"
    ELSE "S_EXT"
\* the external sentinel is routed to the IPI arm
with_cause_ExtAsSoft(cause) ==
    IF cause = S_TIMER THEN "S_TIMER"
    ELSE IF cause = S_SOFT \/ cause = S_EXT THEN "S_SOFT"
    ELSE IF ~cause.intr THEN "EX_IRQ"
    ELSE "PANIC"
with_cause(cause) ==
    IF cause = S_TIMER THEN "S_TIMER"
    ELSE IF cause = S_SOFT THEN "S_SOFT"
    ELSE IF cause = S_EXT THEN "S_EXT"
    ELSE IF ~cause.intr THEN "EX_IRQ"
    ELSE "PANIC"

\* ----------------------------------------------------------------- state
VARIABLES
    pc,                \* position of each hart
    arg,               \* arguments of the running set_enable/register/unregister
    ret,               \* value the finished call returns
    hframe,            \* frame of the running handle call
    obs,               \* what the running handle call did (observation only)
    TIMER_HANDLER,
    IPI_HANDLER,
    IRQ_HANDLER_TABLE,
    PLIC_lock,         \* holder of the SpinNoIrq around the PLIC
    plic,              \* controller registers
    sie,               \* per-hart interrupt-enable bits
    owner,             \* handler of each target according to the return values
    protoErr,          \* the controller saw a claim/complete out of protocol
    panicked,
    calls,             \* calls made so far
    irq_off,           \* per hart: how many times local interrupts were disabled
    ipi                \* per hart: the running send_ipi call

vars == <<pc, arg, ret, hframe, obs, TIMER_HANDLER, IPI_HANDLER,
          IRQ_HANDLER_TABLE, PLIC_lock, plic, sie, owner, protoErr, panicked,
          calls, irq_off, ipi>>

NoArg == [op |-> "none", irq |-> Dev(0), handler |-> NULL, enabled |-> FALSE,
          caller |-> "none", depth |-> 0]
NoRet == [tag |-> "pending", b |-> FALSE, w |-> Dev(0), f |-> NULL]
RetUnit == [tag |-> "unit", b |-> FALSE, w |-> Dev(0), f |-> NULL]
RetBool(b) == [tag |-> "bool", b |-> b, w |-> Dev(0), f |-> NULL]
RetNone == [tag |-> "none", b |-> FALSE, w |-> Dev(0), f |-> NULL]
RetSomeIrq(w) == [tag |-> "some", b |-> FALSE, w |-> w, f |-> NULL]
RetSomeHandler(f) == [tag |-> "some", b |-> FALSE, w |-> Dev(0), f |-> f]

NoFrame == [cause |-> Dev(0), claimed |-> 0, fn |-> NULL]
NoObs == [invoked |-> <<>>, expected |-> NULL, claims |-> 0, completes |-> 0,
          dispatched |-> FALSE]

Targets == {S_TIMER, S_SOFT} \cup {Dev(n) : n \in TableIdx}

NoIpi == [kind |-> "none", cpu_id |-> 0, cpu_num |-> 0, i |-> 0,
          sends |-> <<>>, fails |-> {}]

Init ==
    /\ pc = [h \in Harts |-> "init_percpu"]
    /\ arg = [h \in Harts |-> NoArg]
    /\ ret = [h \in Harts |-> NoRet]
    /\ hframe = [h \in Harts |-> NoFrame]
    /\ obs = [h \in Harts |-> NoObs]
    /\ TIMER_HANDLER = NULL
    /\ IPI_HANDLER = NULL
    /\ IRQ_HANDLER_TABLE = [n \in TableIdx |-> NULL]
    /\ PLIC_lock = NoHart
    /\ plic = [priority |-> [n \in Sources |-> 0],
               enable |-> [c \in Contexts |-> [n \in Sources |-> FALSE]],
               inflight |-> [c \in Contexts |-> 0]]
    /\ sie = [h \in Harts |-> [ssoft |-> FALSE, stimer |-> FALSE, sext |-> FALSE]]
    /\ owner = [t \in Targets |-> NULL]
    /\ protoErr = FALSE
    /\ panicked = FALSE
    /\ calls = 0
    /\ irq_off = [h \in Harts |-> 0]
    /\ ipi = [h \in Harts |-> NoIpi]

\* ------------------------------------------------------------ primitives
\* AtomicPtr::compare_exchange(null, new).is_ok()
\* the exchange reports success whatever the slot holds
CasOk_Always(slot) == TRUE
CasOk(slot) == slot = NULL
\* a plain store in place of the compare-and-swap
CasNew_Store(slot, new) == new
CasNew(slot, new) == IF slot = NULL THEN new ELSE slot

\* HandlerTable<MAX_IRQ_COUNT>
register_handler_ok(table, idx) == idx < MAX_IRQ_COUNT /\ table[idx] = NULL
register_handler(table, idx, handler) ==
    IF register_handler_ok(table, idx) THEN [table EXCEPT ![idx] = handler] ELSE table
unregister_handler_old(table, idx) ==
    IF idx < MAX_IRQ_COUNT THEN table[idx] ELSE NULL
unregister_handler(table, idx) ==
    IF idx < MAX_IRQ_COUNT THEN [table EXCEPT ![idx] = NULL] ELSE table
table_handle(table, idx) ==
    IF idx < MAX_IRQ_COUNT THEN table[idx] ELSE NULL

\* NonZeroU32::new(irq as _)
NonZeroU32(code) == code # 0

\* Plic register operations
plic_set_priority(p, irq, level) ==
    [p EXCEPT !.priority[irq] = level]
plic_enable(p, irq, ctx) ==
    [p EXCEPT !.enable[ctx][irq] = TRUE]
plic_disable(p, irq, ctx) ==
    [p EXCEPT !.enable[ctx][irq] = FALSE]
plic_init_by_context(p, ctx) ==
    [p EXCEPT !.enable[ctx] = [n \in Sources |-> FALSE]]
\* sources the controller can hand to a claim of ctx; 0 is "nothing pending"
plic_claimable(p, ctx) ==
    {n \in Sources : /\ p.enable[ctx][n]
                     /\ p.priority[n] > 0
                     /\ \A c \in Contexts : p.inflight[c] # n} \cup {0}
plic_claim(p, ctx, n) ==
    IF n = 0 THEN p ELSE [p EXCEPT !.inflight[ctx] = n]
plic_complete(p, ctx, n) ==
    IF ctx \in Contexts /\ p.inflight[ctx] = n
    THEN [p EXCEPT !.inflight[ctx] = 0] ELSE p
plic_complete_ok(p, ctx, n) ==
    ctx \in Contexts /\ n # 0 /\ p.inflight[ctx] = n

\* SpinNoIrq: taking the lock disables the local interrupts of the hart,
\* dropping the guard restores what was saved
\* a lock that spins without touching the interrupt state
LockIrqDepth_Raw(d) == d
LockIrqDepth(d) == d + 1
UnlockIrqDepth(d) == d - 1
IrqSave(h) == irq_off' = [irq_off EXCEPT ![h] = LockIrqDepth(@)]
IrqRestore(h) == irq_off' = [irq_off EXCEPT ![h] = UnlockIrqDepth(@)]

SetPc(h, p) == pc' = [pc EXCEPT ![h] = p]
Panic(h) ==
    /\ SetPc(h, "panic")
    /\ panicked' = TRUE

\* ----------------------------------------------------------- init_percpu
InitPercpu(h) ==
    /\ ~panicked
    /\ pc[h] = "init_percpu"
    /\ sie' = [sie EXCEPT ![h] = [ssoft |-> TRUE, stimer |-> TRUE, sext |-> TRUE]]
    /\ SetPc(h, "init_lock")
    /\ UNCHANGED <<arg, ret, hframe, obs, TIMER_HANDLER, IPI_HANDLER,
                   IRQ_HANDLER_TABLE, PLIC_lock, plic, owner, protoErr, panicked, calls>>
    /\ UNCHANGED irq_off
    /\ UNCHANGED ipi

InitLock(h) ==
    /\ ~panicked
    /\ pc[h] = "init_lock"
    /\ PLIC_lock = NoHart
    /\ PLIC_lock' = h
    /\ SetPc(h, "init_ctx")
    /\ UNCHANGED <<arg, ret, hframe, obs, TIMER_HANDLER, IPI_HANDLER,
                   IRQ_HANDLER_TABLE, plic, sie, owner, protoErr, panicked, calls>>
    /\ IrqSave(h)
    /\ UNCHANGED ipi

InitContext(h) ==
    /\ ~panicked
    /\ pc[h] = "init_ctx"
    /\ plic' = plic_init_by_context(plic, this_context(h))
    /\ PLIC_lock' = NoHart
    /\ SetPc(h, "idle")
    /\ UNCHANGED <<arg, ret, hframe, obs, TIMER_HANDLER, IPI_HANDLER,
                   IRQ_HANDLER_TABLE, sie, owner, protoErr, panicked, calls>>
    /\ IrqRestore(h)
    /\ UNCHANGED ipi

\* ----------------------------------------------------------------- calls
\* a hart calls from its idle loop, or from inside a running handler
CanCall(h) ==
    /\ ~panicked
    /\ calls < MaxCalls
    /\ pc[h] \in {"idle", "handler"}
CallDepth(h) == IF pc[h] = "handler" THEN 1 ELSE 0
NewArg(h, op, irq, handler, enabled) ==
    [op |-> op, irq |-> irq, handler |-> handler, enabled |-> enabled,
     caller |-> "none", depth |-> CallDepth(h)]

\* value a finished set_enable hands back through its caller
AfterSetEnable(a) ==
    IF a.caller = "register" THEN RetBool(TRUE)
    ELSE IF a.caller = "unregister" THEN RetSomeHandler(a.handler)
    ELSE RetUnit

\* ------------------------------------------------------------ set_enable
\* set_enable(a.irq, a.enabled) up to the point where it asks for the lock
SetEnableEntry(h, a) ==
    LET kind == with_cause(a.irq)
    IN  CASE kind = "S_TIMER" ->
               /\ sie' = [sie EXCEPT ![h].stimer = a.enabled]
               /\ ret' = [ret EXCEPT ![h] = AfterSetEnable(a)]
               /\ SetPc(h, "ret")
               /\ UNCHANGED panicked
          [] kind \in {"S_SOFT", "S_EXT"} ->
               /\ ret' = [ret EXCEPT ![h] = AfterSetEnable(a)]
               /\ SetPc(h, "ret")
               /\ UNCHANGED <<sie, panicked>>
          [] kind = "EX_IRQ" ->
               IF NonZeroU32(a.irq.code)
               THEN /\ SetPc(h, "se_lock")
                    /\ UNCHANGED <<ret, sie, panicked>>
               ELSE /\ ret' = [ret EXCEPT ![h] = AfterSetEnable(a)]
                    /\ SetPc(h, "ret")
                    /\ UNCHANGED <<sie, panicked>>
          [] OTHER ->
               /\ Panic(h)
               /\ UNCHANGED <<ret, sie>>

CallSetEnable(h) ==
    /\ CanCall(h)
    /\ \E irq \in EnableCauses, enabled \in BOOLEAN :
           LET a == NewArg(h, "set_enable", irq, NULL, enabled)
           IN  /\ arg' = [arg EXCEPT ![h] = a]
               /\ SetEnableEntry(h, a)
    /\ calls' = calls + 1
    /\ UNCHANGED <<hframe, obs, TIMER_HANDLER, IPI_HANDLER, IRQ_HANDLER_TABLE,
                   PLIC_lock, plic, owner, protoErr>>
    /\ UNCHANGED irq_off
    /\ UNCHANGED ipi

\* let mut plic = PLIC.lock();
SetEnableLock(h) ==
    /\ ~panicked
    /\ pc[h] = "se_lock"
    /\ PLIC_lock = NoHart
    /\ PLIC_lock' = h
    /\ SetPc(h, "se_crit")
    /\ UNCHANGED <<arg, ret, hframe, obs, TIMER_HANDLER, IPI_HANDLER,
                   IRQ_HANDLER_TABLE, plic, sie, owner, protoErr, panicked, calls>>
    /\ IrqSave(h)
    /\ UNCHANGED ipi

\* the enable bit of irq is written in every context
SetEnableWrite_AllCtx(p, irq, enabled, ctx) ==
    [p EXCEPT !.enable = [c \in DOMAIN p.enable |->
                             [p.enable[c] EXCEPT ![irq] = enabled]]]
\* registers written under the lock
SetEnableWrite(p, irq, enabled, ctx) ==
    IF enabled
    THEN plic_enable(plic_set_priority(p, irq, PLIC_PRIORITY), irq, ctx)
    ELSE plic_disable(p, irq, ctx)

SetEnablePlic(h) ==
    /\ ~panicked
    /\ pc[h] = "se_crit"
    /\ plic' = SetEnableWrite(plic, arg[h].irq.code, arg[h].enabled, this_context(h))
    /\ ret' = [ret EXCEPT ![h] = AfterSetEnable(arg[h])]
    /\ PLIC_lock' = NoHart
    /\ SetPc(h, "ret")
    /\ UNCHANGED <<arg, hframe, obs, TIMER_HANDLER, IPI_HANDLER,
                   IRQ_HANDLER_TABLE, sie, owner, protoErr, panicked, calls>>
    /\ IrqRestore(h)
    /\ UNCHANGED ipi

\* the call returns to the idle loop or to the handler that made it
Return(h) ==
    /\ ~panicked
    /\ pc[h] = "ret"
    /\ SetPc(h, IF arg[h].depth = 1 THEN "handler" ELSE "idle")
    /\ arg' = [arg EXCEPT ![h] = NoArg]
    /\ ret' = [ret EXCEPT ![h] = NoRet]
    /\ UNCHANGED <<hframe, obs, TIMER_HANDLER, IPI_HANDLER, IRQ_HANDLER_TABLE,
                   PLIC_lock, plic, sie, owner, protoErr, panicked, calls>>
    /\ UNCHANGED irq_off
    /\ UNCHANGED ipi

\* -------------------------------------------------------------- register
Register(h, a) ==
    LET kind == with_cause(a.irq)
    IN  CASE kind = "S_TIMER" ->
               /\ TIMER_HANDLER' = CasNew(TIMER_HANDLER, a.handler)
               /\ ret' = [ret EXCEPT ![h] = RetBool(CasOk(TIMER_HANDLER))]
               /\ owner' = IF CasOk(TIMER_HANDLER)
                           THEN [owner EXCEPT ![S_TIMER] = a.handler] ELSE owner
               /\ arg' = [arg EXCEPT ![h] = a]
               /\ SetPc(h, "ret")
               /\ UNCHANGED <<IPI_HANDLER, IRQ_HANDLER_TABLE, sie, panicked>>
          [] kind = "S_SOFT" ->
               /\ IPI_HANDLER' = CasNew(IPI_HANDLER, a.handler)
               /\ ret' = [ret EXCEPT ![h] = RetBool(CasOk(IPI_HANDLER))]
               /\ owner' = IF CasOk(IPI_HANDLER)
                           THEN [owner EXCEPT ![S_SOFT] = a.handler] ELSE owner
               /\ arg' = [arg EXCEPT ![h] = a]
               /\ SetPc(h, "ret")
               /\ UNCHANGED <<TIMER_HANDLER, IRQ_HANDLER_TABLE, sie, panicked>>
          [] kind = "S_EXT" ->
               /\ ret' = [ret EXCEPT ![h] = RetBool(FALSE)]
               /\ arg' = [arg EXCEPT ![h] = a]
               /\ SetPc(h, "ret")
               /\ UNCHANGED <<TIMER_HANDLER, IPI_HANDLER, IRQ_HANDLER_TABLE,
                              owner, sie, panicked>>
          [] kind = "EX_IRQ" ->
               /\ IRQ_HANDLER_TABLE' =
                      register_handler(IRQ_HANDLER_TABLE, a.irq.code, a.handler)
               /\ IF register_handler_ok(IRQ_HANDLER_TABLE, a.irq.code)
                  THEN \* Self::set_enable(irq, true)
                       LET b == [a EXCEPT !.enabled = TRUE, !.caller = "register"]
                       IN  /\ owner' = [owner EXCEPT ![a.irq] = a.handler]
                           /\ arg' = [arg EXCEPT ![h] = b]
                           /\ SetEnableEntry(h, b)
                  ELSE /\ ret' = [ret EXCEPT ![h] = RetBool(FALSE)]
                       /\ arg' = [arg EXCEPT ![h] = a]
                       /\ SetPc(h, "ret")
                       /\ UNCHANGED <<owner, sie, panicked>>
               /\ UNCHANGED <<TIMER_HANDLER, IPI_HANDLER>>
          [] OTHER ->
               /\ Panic(h)
               /\ arg' = [arg EXCEPT ![h] = a]
               /\ UNCHANGED <<ret, TIMER_HANDLER, IPI_HANDLER,
                              IRQ_HANDLER_TABLE, owner, sie>>

CallRegister(h) ==
    /\ CanCall(h)
    /\ \E irq \in Causes, handler \in Handlers :
           Register(h, NewArg(h, "register", irq, handler, FALSE))
    /\ calls' = calls + 1
    /\ UNCHANGED <<hframe, obs, PLIC_lock, plic, protoErr>>
    /\ UNCHANGED irq_off
    /\ UNCHANGED ipi

\* ------------------------------------------------------------ unregister
\* the closure of Option::inspect runs whatever unregister_handler returned
InspectRuns_Always(old) == TRUE
\* Option::inspect runs its closure only on Some
InspectRuns(old) == old # NULL

\* AtomicPtr::swap(null) on a singleton slot
UnregisterSlot(h, slot) ==
    /\ ret' = [ret EXCEPT ![h] = IF slot # NULL THEN RetSomeHandler(slot)
                                                ELSE RetNone]
    /\ SetPc(h, "ret")

Unregister(h, a) ==
    LET kind == with_cause(a.irq)
    IN  CASE kind = "S_TIMER" ->
               /\ TIMER_HANDLER' = NULL
               /\ UnregisterSlot(h, TIMER_HANDLER)
               /\ owner' = IF TIMER_HANDLER # NULL
                           THEN [owner EXCEPT ![S_TIMER] = NULL] ELSE owner
               /\ arg' = [arg EXCEPT ![h] = a]
               /\ UNCHANGED <<IPI_HANDLER, IRQ_HANDLER_TABLE, sie, panicked>>
          [] kind = "S_SOFT" ->
               /\ IPI_HANDLER' = NULL
               /\ UnregisterSlot(h, IPI_HANDLER)
               /\ owner' = IF IPI_HANDLER # NULL
                           THEN [owner EXCEPT ![S_SOFT] = NULL] ELSE owner
               /\ arg' = [arg EXCEPT ![h] = a]
               /\ UNCHANGED <<TIMER_HANDLER, IRQ_HANDLER_TABLE, sie, panicked>>
          [] kind = "S_EXT" ->
               /\ ret' = [ret EXCEPT ![h] = RetNone]
               /\ arg' = [arg EXCEPT ![h] = a]
               /\ SetPc(h, "ret")
               /\ UNCHANGED <<TIMER_HANDLER, IPI_HANDLER, IRQ_HANDLER_TABLE,
                              owner, sie, panicked>>
          [] kind = "EX_IRQ" ->
               LET old == unregister_handler_old(IRQ_HANDLER_TABLE, a.irq.code)
               IN  /\ IRQ_HANDLER_TABLE' =
                          unregister_handler(IRQ_HANDLER_TABLE, a.irq.code)
                   /\ IF InspectRuns(old)
                      THEN \* .inspect(|_| Self::set_enable(irq, false))
                           LET b == [a EXCEPT !.enabled = FALSE, !.handler = old,
                                              !.caller = "unregister"]
                           IN  /\ owner' = IF old # NULL
                                           THEN [owner EXCEPT ![a.irq] = NULL]
                                           ELSE owner
                               /\ arg' = [arg EXCEPT ![h] = b]
                               /\ SetEnableEntry(h, b)
                      ELSE /\ ret' = [ret EXCEPT ![h] = RetNone]
                           /\ arg' = [arg EXCEPT ![h] = a]
                           /\ SetPc(h, "ret")
                           /\ UNCHANGED <<owner, sie, panicked>>
                   /\ UNCHANGED <<TIMER_HANDLER, IPI_HANDLER>>
          [] OTHER ->
               /\ Panic(h)
               /\ arg' = [arg EXCEPT ![h] = a]
               /\ UNCHANGED <<ret, TIMER_HANDLER, IPI_HANDLER,
                              IRQ_HANDLER_TABLE, owner, sie>>

CallUnregister(h) ==
    /\ CanCall(h)
    /\ \E irq \in Causes : Unregister(h, NewArg(h, "unregister", irq, NULL, FALSE))
    /\ calls' = calls + 1
    /\ UNCHANGED <<hframe, obs, PLIC_lock, plic, protoErr>>
    /\ UNCHANGED irq_off
    /\ UNCHANGED ipi

\* ---------------------------------------------------------------- handle
\* value handle returns for the timer and the IPI cause
\* the timer and the IPI arm return None
HandleCpuRet_None(irq) == RetNone
HandleCpuRet(irq) == RetSomeIrq(irq)

\* load the slot and, when it is not null, call what it holds
HandleSlot(h, cause, slot) ==
    /\ obs' = [obs EXCEPT ![h] =
                 [NoObs EXCEPT !.expected = owner[cause],
                               !.dispatched = TRUE,
                               !.invoked = IF slot # NULL THEN <<slot>> ELSE <<>>]]
    /\ hframe' = [hframe EXCEPT ![h] = [NoFrame EXCEPT !.cause = cause, !.fn = slot]]
    /\ IF slot # NULL
       THEN /\ SetPc(h, "handler")
            /\ UNCHANGED ret
       ELSE /\ ret' = [ret EXCEPT ![h] = HandleCpuRet(cause)]
            /\ SetPc(h, "h_ret")

\* a device number handed to handle is looked up in the table directly
Handle_DevLookup(h, cause) ==
    LET kind == with_cause(cause)
    IN  CASE kind = "S_TIMER" ->
               /\ HandleSlot(h, cause, TIMER_HANDLER)
               /\ UNCHANGED panicked
          [] kind = "S_SOFT" ->
               /\ HandleSlot(h, cause, IPI_HANDLER)
               /\ UNCHANGED panicked
          [] kind = "S_EXT" ->
               /\ hframe' = [hframe EXCEPT ![h] = [NoFrame EXCEPT !.cause = cause]]
               /\ obs' = [obs EXCEPT ![h] = NoObs]
               /\ SetPc(h, "h_lock")
               /\ UNCHANGED <<ret, panicked>>
          [] kind = "EX_IRQ" /\ cause.code \in TableIdx ->
               /\ HandleSlot(h, cause, IRQ_HANDLER_TABLE[cause.code])
               /\ UNCHANGED panicked
          [] OTHER ->
               /\ hframe' = [hframe EXCEPT ![h] = [NoFrame EXCEPT !.cause = cause]]
               /\ Panic(h)
               /\ UNCHANGED <<ret, obs>>
\* handle(cause) up to the point where it asks for the lock
Handle(h, cause) ==
    LET kind == with_cause(cause)
    IN  CASE kind = "S_TIMER" ->
               /\ HandleSlot(h, cause, TIMER_HANDLER)
               /\ UNCHANGED panicked
          [] kind = "S_SOFT" ->
               /\ HandleSlot(h, cause, IPI_HANDLER)
               /\ UNCHANGED panicked
          [] kind = "S_EXT" ->
               /\ hframe' = [hframe EXCEPT ![h] = [NoFrame EXCEPT !.cause = cause]]
               /\ obs' = [obs EXCEPT ![h] = NoObs]
               /\ SetPc(h, "h_lock")
               /\ UNCHANGED <<ret, panicked>>
          [] OTHER ->
               \* unreachable!() for a device number, panic!() otherwise
               /\ hframe' = [hframe EXCEPT ![h] = [NoFrame EXCEPT !.cause = cause]]
               /\ Panic(h)
               /\ UNCHANGED <<ret, obs>>

\* trap entry calls handle with the cause word it read
CallHandle(h) ==
    /\ ~panicked
    /\ calls < MaxCalls
    /\ pc[h] = "idle"
    /\ irq_off[h] = 0
    /\ \E cause \in Causes : Handle(h, cause)
    /\ irq_off' = [irq_off EXCEPT ![h] = @ + 1]
    /\ calls' = calls + 1
    /\ UNCHANGED <<arg, TIMER_HANDLER, IPI_HANDLER, IRQ_HANDLER_TABLE,
                   PLIC_lock, plic, sie, owner, protoErr>>
    /\ UNCHANGED ipi

\* let mut plic = PLIC.lock();
HandleLock(h) ==
    /\ ~panicked
    /\ pc[h] = "h_lock"
    /\ PLIC_lock = NoHart
    /\ PLIC_lock' = h
    /\ SetPc(h, "h_claim")
    /\ UNCHANGED <<arg, ret, hframe, obs, TIMER_HANDLER, IPI_HANDLER,
                   IRQ_HANDLER_TABLE, plic, sie, owner, protoErr, panicked, calls>>
    /\ IrqSave(h)
    /\ UNCHANGED ipi

\* holder of the lock once the spurious path has returned
\* the guard outlives the early return
SpuriousRelease_Held(h) == h
SpuriousRelease(h) == NoHart

\* plic.claim(this_context())
HandleClaim(h) ==
    /\ ~panicked
    /\ pc[h] = "h_claim"
    /\ \E n \in plic_claimable(plic, this_context(h)) :
           IF n = 0
           THEN /\ ret' = [ret EXCEPT ![h] = RetNone]
                /\ PLIC_lock' = SpuriousRelease(h)
                /\ IrqRestore(h)
                /\ SetPc(h, "h_ret")
                /\ UNCHANGED <<hframe, obs, plic, protoErr>>
           ELSE /\ plic' = plic_claim(plic, this_context(h), n)
                /\ protoErr' = (protoErr \/ plic.inflight[this_context(h)] # 0)
                /\ hframe' = [hframe EXCEPT ![h].claimed = n]
                /\ obs' = [obs EXCEPT ![h].claims = @ + 1]
                /\ SetPc(h, "h_dispatch")
                /\ UNCHANGED <<ret, PLIC_lock, irq_off>>
    /\ UNCHANGED <<arg, TIMER_HANDLER, IPI_HANDLER, IRQ_HANDLER_TABLE,
                   sie, owner, panicked, calls>>
    /\ UNCHANGED ipi

\* handle goes from the claim to the complete without the table dispatch
HandleDispatch_Skip(h) ==
    /\ ~panicked
    /\ pc[h] = "h_dispatch"
    /\ obs' = [obs EXCEPT ![h].expected = owner[Dev(hframe[h].claimed)],
                          ![h].dispatched = TRUE]
    /\ SetPc(h, "h_complete")
    /\ UNCHANGED <<arg, ret, hframe, TIMER_HANDLER, IPI_HANDLER, IRQ_HANDLER_TABLE,
                   PLIC_lock, plic, sie, owner, protoErr, panicked, calls>>
    /\ UNCHANGED irq_off
    /\ UNCHANGED ipi

\* IRQ_HANDLER_TABLE.handle(irq.get() as usize)
HandleDispatch(h) ==
    /\ ~panicked
    /\ pc[h] = "h_dispatch"
    /\ LET f == table_handle(IRQ_HANDLER_TABLE, hframe[h].claimed)
       IN  /\ obs' = [obs EXCEPT ![h].expected = owner[Dev(hframe[h].claimed)],
                                 ![h].dispatched = (f = NULL),
                                 ![h].invoked = IF f # NULL THEN Append(@, f) ELSE @]
           /\ hframe' = [hframe EXCEPT ![h].fn = f]
           /\ SetPc(h, IF f # NULL THEN "handler" ELSE "h_complete")
    /\ UNCHANGED <<arg, ret, TIMER_HANDLER, IPI_HANDLER, IRQ_HANDLER_TABLE,
                   PLIC_lock, plic, sie, owner, protoErr, panicked, calls>>
    /\ UNCHANGED irq_off
    /\ UNCHANGED ipi

\* the handler that handle called returns
HandlerReturn(h) ==
    /\ ~panicked
    /\ pc[h] = "handler"
    /\ IF with_cause(hframe[h].cause) = "S_EXT"
       THEN /\ SetPc(h, "h_complete")
            /\ obs' = [obs EXCEPT ![h].dispatched = TRUE]
            /\ UNCHANGED ret
       ELSE /\ ret' = [ret EXCEPT ![h] = HandleCpuRet(hframe[h].cause)]
            /\ SetPc(h, "h_ret")
            /\ UNCHANGED obs
    /\ UNCHANGED <<arg, hframe, TIMER_HANDLER, IPI_HANDLER, IRQ_HANDLER_TABLE,
                   PLIC_lock, plic, sie, owner, protoErr, panicked, calls>>
    /\ UNCHANGED irq_off
    /\ UNCHANGED ipi

\* handle returns after the dispatch without completing the claim
HandleComplete_NoComplete(h) ==
    /\ ~panicked
    /\ pc[h] = "h_complete"
    /\ ret' = [ret EXCEPT ![h] = RetSomeIrq(Dev(hframe[h].claimed))]
    /\ PLIC_lock' = NoHart
    /\ SetPc(h, "h_ret")
    /\ UNCHANGED <<arg, hframe, obs, plic, protoErr, TIMER_HANDLER, IPI_HANDLER,
                   IRQ_HANDLER_TABLE, sie, owner, panicked, calls>>
    /\ IrqRestore(h)
    /\ UNCHANGED ipi

\* plic.complete(this_context(), irq), then the guard is dropped
HandleComplete(h) ==
    /\ ~panicked
    /\ pc[h] = "h_complete"
    /\ plic' = plic_complete(plic, this_context(h), hframe[h].claimed)
    /\ protoErr' = (protoErr \/
                    ~plic_complete_ok(plic, this_context(h), hframe[h].claimed))
    /\ obs' = [obs EXCEPT ![h].completes = @ + 1]
    /\ ret' = [ret EXCEPT ![h] = RetSomeIrq(Dev(hframe[h].claimed))]
    /\ PLIC_lock' = NoHart
    /\ SetPc(h, "h_ret")
    /\ UNCHANGED <<arg, hframe, TIMER_HANDLER, IPI_HANDLER, IRQ_HANDLER_TABLE,
                   sie, owner, panicked, calls>>
    /\ IrqRestore(h)
    /\ UNCHANGED ipi

\* handle returns to trap entry
HandleReturn(h) ==
    /\ ~panicked
    /\ pc[h] = "h_ret"
    /\ SetPc(h, "idle")
    /\ ret' = [ret EXCEPT ![h] = NoRet]
    /\ hframe' = [hframe EXCEPT ![h] = NoFrame]
    /\ obs' = [obs EXCEPT ![h] = NoObs]
    /\ irq_off' = [irq_off EXCEPT ![h] = @ - 1]
    /\ UNCHANGED <<arg, TIMER_HANDLER, IPI_HANDLER, IRQ_HANDLER_TABLE,
                   PLIC_lock, plic, sie, owner, protoErr, panicked, calls>>
    /\ UNCHANGED ipi

\* ------------------------------------------------------- the state machine
Next ==
    \E h \in Harts :
        \/ InitPercpu(h)
        \/ InitLock(h)
        \/ InitContext(h)
        \/ CallSetEnable(h)
        \/ SetEnableLock(h)
        \/ SetEnablePlic(h)
        \/ Return(h)
        \/ CallRegister(h)
        \/ CallUnregister(h)
        \/ CallHandle(h)
        \/ HandleLock(h)
        \/ HandleClaim(h)
        \/ HandleDispatch(h)
        \/ HandlerReturn(h)
        \/ HandleComplete(h)
        \/ HandleReturn(h)

Spec == Init /\ [][Next]_vars

\* -------------------------------------------------------------- send_ipi
\* send_ipi reads and writes nothing the other operations use, so it is
\* followed on its own, one call at a time, from the state in which every
\* hart has finished init_percpu.
InitIpi ==
    /\ pc = [h \in Harts |-> "idle"]
    /\ arg = [h \in Harts |-> NoArg]
    /\ ret = [h \in Harts |-> NoRet]
    /\ hframe = [h \in Harts |-> NoFrame]
    /\ obs = [h \in Harts |-> NoObs]
    /\ TIMER_HANDLER = NULL
    /\ IPI_HANDLER = NULL
    /\ IRQ_HANDLER_TABLE = [n \in TableIdx |-> NULL]
    /\ PLIC_lock = NoHart
    /\ plic = [priority |-> [n \in Sources |-> 0],
               enable |-> [c \in Contexts |-> [n \in Sources |-> FALSE]],
               inflight |-> [c \in Contexts |-> 0]]
    /\ sie = [h \in Harts |-> [ssoft |-> TRUE, stimer |-> TRUE, sext |-> TRUE]]
    /\ owner = [t \in Targets |-> NULL]
    /\ protoErr = FALSE
    /\ panicked = FALSE
    /\ calls = 0
    /\ irq_off = [h \in Harts |-> 0]
    /\ ipi = [h \in Harts |-> NoIpi]

IpiKinds == {"Current", "Other", "AllExceptCurrent"}
\* HartMask::from_mask_base(1 << i, 0)
HartMask(i) == [mask |-> 2 ^ i, base |-> 0]
\* the loop sends to every index, the current hart included
SendsTo_All(i, cpu_id) == TRUE
\* if i != cpu_id
SendsTo(i, cpu_id) == i # cpu_id
\* the loop is left at the first send that fails
AfterSend_Break(i, err, cpu_num) == IF err THEN cpu_num ELSE i + 1
\* index the loop goes on with after a send: the result is only logged
AfterSend(i, err, cpu_num) == i + 1

IpiUnchanged ==
    UNCHANGED <<arg, ret, hframe, obs, TIMER_HANDLER, IPI_HANDLER,
                IRQ_HANDLER_TABLE, PLIC_lock, plic, sie, owner, protoErr,
                panicked, irq_off>>

CallSendIpi(h) ==
    /\ ~panicked
    /\ calls < MaxCalls
    /\ \A g \in Harts : pc[g] = "idle"
    /\ \E kind \in IpiKinds, cpu_id \in 0 .. (MaxCpu - 1), cpu_num \in 0 .. MaxCpu :
           /\ kind # "AllExceptCurrent" => cpu_num = 0
           /\ ipi' = [ipi EXCEPT ![h] = [NoIpi EXCEPT !.kind = kind,
                                                      !.cpu_id = cpu_id,
                                                      !.cpu_num = cpu_num]]
           /\ SetPc(h, IF kind = "AllExceptCurrent" THEN "ipi_loop" ELSE "ipi_one")
    /\ calls' = calls + 1
    /\ IpiUnchanged

\* IpiTarget::Current and IpiTarget::Other: one send to cpu_id
SendIpiOne(h) ==
    /\ pc[h] = "ipi_one"
    /\ \E err \in BOOLEAN :
           ipi' = [ipi EXCEPT ![h].sends = Append(@, HartMask(ipi[h].cpu_id)),
                              ![h].fails = IF err THEN @ \cup {ipi[h].cpu_id} ELSE @]
    /\ SetPc(h, "ipi_ret")
    /\ UNCHANGED calls
    /\ IpiUnchanged

\* one turn of `for i in 0..cpu_num`
SendIpiLoop(h) ==
    /\ pc[h] = "ipi_loop"
    /\ LET t == ipi[h]
       IN  IF t.i >= t.cpu_num
           THEN /\ SetPc(h, "ipi_ret")
                /\ UNCHANGED ipi
           ELSE IF SendsTo(t.i, t.cpu_id)
           THEN /\ \E err \in BOOLEAN :
                       ipi' = [ipi EXCEPT ![h].sends = Append(@, HartMask(t.i)),
                                          ![h].fails = IF err THEN @ \cup {t.i} ELSE @,
                                          ![h].i = AfterSend(t.i, err, t.cpu_num)]
                /\ UNCHANGED pc
           ELSE /\ ipi' = [ipi EXCEPT ![h].i = t.i + 1]
                /\ UNCHANGED pc
    /\ UNCHANGED calls
    /\ IpiUnchanged

SendIpiReturn(h) ==
    /\ pc[h] = "ipi_ret"
    /\ SetPc(h, "idle")
    /\ ipi' = [ipi EXCEPT ![h] = NoIpi]
    /\ UNCHANGED calls
    /\ IpiUnchanged

NextIpi ==
    \E h \in Harts :
        \/ CallSendIpi(h)
        \/ SendIpiOne(h)
        \/ SendIpiLoop(h)
        \/ SendIpiReturn(h)

SpecIpi == InitIpi /\ [][NextIpi]_vars

\* ------------------------------------------------------------ properties
IsExt(h) == with_cause(hframe[h].cause) = "S_EXT"
IsCpu(h) == with_cause(hframe[h].cause) \in {"S_TIMER", "S_SOFT"}
\* the handler installed for the target of a register call, NULL when none
Installed(irq) ==
    CASE with_cause(irq) = "S_TIMER" -> TIMER_HANDLER
      [] with_cause(irq) = "S_SOFT" -> IPI_HANDLER
      [] with_cause(irq) = "EX_IRQ" /\ irq.code \in TableIdx ->
             IRQ_HANDLER_TABLE[irq.code]
      [] OTHER -> NULL
\* hart h enters register in this step
StartsRegister(h) == arg[h].op = "none" /\ arg'[h].op = "register"

C2_HandlerRunsUnlocked ==
    \A h \in Harts :
        (IsExt(h) /\ hframe[h].claimed # 0 /\ obs[h].invoked # <<>>
                  /\ obs[h].completes = 0 /\ pc[h] # "h_complete")
            => PLIC_lock # h

\* C3: a hart never waits for the controller lock while it holds that lock
\* itself, so a register, unregister or set_enable made by a device handler
\* returns.
C3_NoSelfDeadlock ==
    \A h \in Harts :
        pc[h] \in {"se_lock", "h_lock", "init_lock"} => PLIC_lock # h

\* C4: for n in [1, 1024), a handle(S_EXT) whose claim returned n invokes
\* exactly once the handler that the last successful register(n, h) installed
\* and returns Some(n); after unregister(n) returned that handler it invokes
\* nothing.
C4_RoundTrip ==
    \A h \in Harts :
        (IsExt(h) /\ hframe[h].claimed # 0 /\ pc[h] # "h_dispatch") =>
            /\ hframe[h].claimed >= 1
            /\ hframe[h].claimed < MAX_IRQ_COUNT
            /\ obs[h].invoked = IF obs[h].expected = NULL THEN <<>>
                                ELSE <<obs[h].expected>>
            /\ pc[h] = "h_ret" => ret[h] = RetSomeIrq(Dev(hframe[h].claimed))
C4_Witness ==
    \E h \in Harts :
        /\ pc[h] = "h_ret"
        /\ IsExt(h)
        /\ hframe[h].claimed = MAX_IRQ_COUNT - 1
        /\ obs[h].invoked = <<"H1">>
        /\ owner[Dev(hframe[h].claimed)] = "H1"
        /\ ret[h] = RetSomeIrq(Dev(hframe[h].claimed))

\* C5: a register made while a handler is installed for its target (Timer
\* slot, IPI slot or device IRQ) returns false and changes no slot, table or
\* controller state, and a later dispatch of that target invokes the handler
\* that was installed first.
C5_Unchanged ==
    \A h \in Harts :
        (StartsRegister(h) /\ Installed(arg'[h].irq) # NULL) =>
            /\ pc'[h] = "ret"
            /\ ret'[h] = RetBool(FALSE)
            /\ UNCHANGED <<TIMER_HANDLER, IPI_HANDLER, IRQ_HANDLER_TABLE,
                           PLIC_lock, plic, sie, owner>>
C5_FirstStillInvoked ==
    \A h \in Harts :
        ( \/ IsCpu(h) /\ pc[h] \in {"handler", "h_ret"}
          \/ IsExt(h) /\ pc[h] \in {"handler", "h_complete", "h_ret"}
                      /\ hframe[h].claimed # 0 ) =>
            obs[h].invoked = IF obs[h].expected = NULL THEN <<>>
                             ELSE <<obs[h].expected>>
C5_ConflictKeepsFirst == [][C5_Unchanged]_vars /\ []C5_FirstStillInvoked
C5_Witness ==
    \E h \in Harts :
        /\ pc[h] = "ret"
        /\ arg[h].op = "register"
        /\ ret[h] = RetBool(FALSE)
        /\ Installed(arg[h].irq) \in Handlers \ {arg[h].handler}

\* C6 as stated: handle(S_TIMER) and handle(S_SOFT) return None.
C6_CpuHandleReturnsNone ==
    \A h \in Harts : (pc[h] = "h_ret" /\ IsCpu(h)) => ret[h] = RetNone
\* C6 as amended: handle(S_TIMER) and handle(S_SOFT) return Some(cause), the
\* cause word itself; handle(S_EXT) returns Some(resolved device IRQ) when the
\* claim succeeded and None only when the claim reported nothing pending.
C6_HandleReturnValue ==
    \A h \in Harts :
        pc[h] = "h_ret" =>
            IF IsCpu(h) THEN ret[h] = RetSomeIrq(hframe[h].cause)
            ELSE IF hframe[h].claimed # 0
                 THEN ret[h] = RetSomeIrq(Dev(hframe[h].claimed))
                 ELSE ret[h] = RetNone
C6_Witness ==
    \E h \in Harts :
        /\ pc[h] = "h_ret"
        /\ hframe[h].cause = S_TIMER
        /\ ret[h] = RetSomeIrq(S_TIMER)

\* C7: a handle(S_EXT) whose claim reports nothing pending returns None,
\* invokes no handler, issues no complete, does not abort and does not hold
\* the controller lock when it returns.
C7_SpuriousClaim ==
    \A h \in Harts :
        (pc[h] = "h_ret" /\ IsExt(h) /\ hframe[h].claimed = 0) =>
            /\ ret[h] = RetNone
            /\ obs[h].invoked = <<>>
            /\ obs[h].completes = 0
            /\ plic.inflight[this_context(h)] = 0
            /\ PLIC_lock # h
            /\ panicked => \E g \in Harts \ {h} : pc[g] = "panic"
C7_Witness ==
    \E h \in Harts :
        /\ pc[h] = "h_ret"
        /\ IsExt(h)
        /\ hframe[h].claimed = 0
        /\ plic_claimable(plic, this_context(h)) # {0}
        /\ ret[h] = RetNone

\* C8: when register(irq, handler) for a device-side irq returns true, irq is
\* enabled at the controller for the caller's context with priority 6.
C8_RegisterImpliesEnabled ==
    \A h \in Harts :
        (pc[h] = "ret" /\ arg[h].op = "register" /\ ~arg[h].irq.intr
                       /\ ret[h] = RetBool(TRUE)) =>
            /\ arg[h].irq.code \in Sources
            /\ plic.enable[this_context(h)][arg[h].irq.code]
            /\ plic.priority[arg[h].irq.code] = PLIC_PRIORITY

\* C9: every IRQ number mapped in the device handler table lies in
\* [1, 1024), and register with a device-side irq of 0 or >= 1024 returns
\* false.
C9_DeviceIrqRange ==
    /\ \A n \in TableIdx :
           IRQ_HANDLER_TABLE[n] # NULL => (n >= 1 /\ n < MAX_IRQ_COUNT)
    /\ \A h \in Harts :
           (pc[h] = "ret" /\ arg[h].op = "register" /\ ~arg[h].irq.intr
                          /\ (arg[h].irq.code = 0 \/ arg[h].irq.code >= MAX_IRQ_COUNT))
               => ret[h] = RetBool(FALSE)

\* C10: while unregister(n) runs, n is never still enabled for the caller's
\* context once its mapping is gone from the handler table.
C10_DisableBeforeRemove ==
    \A h \in Harts :
        (arg[h].op = "unregister" /\ arg[h].caller = "unregister"
                                  /\ arg[h].irq.code \in Sources
                                  /\ IRQ_HANDLER_TABLE[arg[h].irq.code] = NULL) =>
            ~plic.enable[this_context(h)][arg[h].irq.code]

\* hart h enters unregister in this step
StartsUnregister(h) == arg[h].op = "none" /\ arg'[h].op = "unregister"

\* C11: unregister on an empty Timer or IPI slot, and unregister(n) of a
\* device IRQ with no mapping, return None and leave the slots, the table and
\* the controller as they were; the controller lock is not even asked for.
C11_Unchanged ==
    \A h \in Harts :
        (StartsUnregister(h)
           /\ with_cause(arg'[h].irq) \in {"S_TIMER", "S_SOFT", "EX_IRQ"}
           /\ Installed(arg'[h].irq) = NULL) =>
            /\ pc'[h] = "ret"
            /\ ret'[h] = RetNone
            /\ UNCHANGED <<TIMER_HANDLER, IPI_HANDLER, IRQ_HANDLER_TABLE,
                           PLIC_lock, plic, sie, irq_off, owner>>
C11_RemoveAbsentIsNoOp == [][C11_Unchanged]_vars
C11_Witness ==
    \E h \in Harts :
        /\ pc[h] = "ret"
        /\ arg[h].op = "unregister"
        /\ ret[h] = RetNone
        /\ arg[h].irq.code \in Sources
        /\ ~arg[h].irq.intr
        /\ plic.enable[this_context(h)][arg[h].irq.code]

\* hart h enters set_enable, register or unregister in this step
StartsOp(h) == arg[h].op = "none" /\ arg'[h].op # "none"
\* trap entry calls handle on hart h in this step
StartsHandle(h) ==
    /\ pc[h] = "idle"
    /\ pc'[h] \in {"handler", "h_ret", "h_lock", "panic"}
    /\ arg'[h].op = "none"
Recognized == {S_SOFT, S_TIMER, S_EXT}
UnknownCpuSide(c) == c.intr /\ c \notin Recognized

\* C12: set_enable, register, unregister and handle abort on a word with the
\* interrupt bit set that is none of S_SOFT, S_TIMER, S_EXT, before any slot,
\* table or controller state is changed; S_TIMER, S_SOFT and S_EXT never abort.
C12_Step ==
    \A h \in Harts :
        /\ ( \/ StartsOp(h) /\ UnknownCpuSide(arg'[h].irq)
             \/ StartsHandle(h) /\ UnknownCpuSide(hframe'[h].cause) ) =>
               /\ panicked'
               /\ pc'[h] = "panic"
               /\ UNCHANGED <<TIMER_HANDLER, IPI_HANDLER, IRQ_HANDLER_TABLE,
                              PLIC_lock, plic, sie, owner, obs>>
        /\ ( \/ StartsOp(h) /\ arg'[h].irq \in Recognized
             \/ StartsHandle(h) /\ hframe'[h].cause \in Recognized ) =>
               /\ ~panicked'
               /\ pc'[h] # "panic"
C12_UnknownCauseAborts == [][C12_Step]_vars
C12_Witness ==
    \E h \in Harts :
        /\ pc[h] = "panic"
        /\ panicked
        /\ arg[h].op = "register"
        /\ arg[h].irq = UnknownCause
        /\ TIMER_HANDLER # NULL

\* C13: register(S_EXT, h) returns false and unregister(S_EXT) returns None,
\* and neither changes the Timer slot, the IPI slot, the device handler table
\* or the controller.
C13_Step ==
    \A h \in Harts :
        (StartsOp(h) /\ arg'[h].irq = S_EXT /\ arg'[h].op \in {"register", "unregister"}) =>
            /\ pc'[h] = "ret"
            /\ ret'[h] = IF arg'[h].op = "register" THEN RetBool(FALSE) ELSE RetNone
            /\ UNCHANGED <<TIMER_HANDLER, IPI_HANDLER, IRQ_HANDLER_TABLE,
                           PLIC_lock, plic, sie, irq_off, owner>>
C13_ExtSentinelRejected == [][C13_Step]_vars
C13_Witness ==
    \E h, g \in Harts :
        /\ pc[h] = "ret" /\ arg[h].op = "register" /\ arg[h].irq = S_EXT
        /\ ret[h] = RetBool(FALSE)
        /\ pc[g] = "ret" /\ arg[g].op = "unregister" /\ arg[g].irq = S_EXT
        /\ ret[g] = RetNone

\* harts an AllExceptCurrent request is meant for
IpiTargets(t) == {i \in 0 .. (t.cpu_num - 1) : i # t.cpu_id}
\* has bit number i of the mask set
MaskHas(mask, i) == (mask \div (2 ^ i)) % 2 = 1

\* C14: send_ipi to AllExceptCurrent{cpu_id, cpu_num} issues exactly one send
\* per hart i in [0, cpu_num) other than cpu_id, with the single-bit mask of i
\* and mask base 0, and no send whose mask includes cpu_id.
C14_FanOutTargets ==
    \A h \in Harts :
        (pc[h] = "ipi_ret" /\ ipi[h].kind = "AllExceptCurrent") =>
            LET t == ipi[h]
            IN  /\ \A i \in IpiTargets(t) :
                       Cardinality({k \in 1 .. Len(t.sends) :
                                       t.sends[k] = [mask |-> 2 ^ i, base |-> 0]}) = 1
                /\ Len(t.sends) = Cardinality(IpiTargets(t))
                /\ \A k \in 1 .. Len(t.sends) : ~MaskHas(t.sends[k].mask, t.cpu_id)
C14_Witness ==
    \E h \in Harts :
        /\ pc[h] = "ipi_ret"
        /\ ipi[h].kind = "AllExceptCurrent"
        /\ ipi[h].cpu_num = 4
        /\ ipi[h].cpu_id = 1
        /\ ipi[h].sends = <<[mask |-> 1, base |-> 0], [mask |-> 4, base |-> 0],
                            [mask |-> 8, base |-> 0]>>

\* C15: whichever sends of an AllExceptCurrent request fail, a send is still
\* attempted for every other hart of the request, no send is repeated, and
\* send_ipi returns without aborting.
C15_Step ==
    \A h \in Harts :
        (pc[h] = "ipi_loop" /\ ipi'[h].fails # ipi[h].fails) =>
            /\ pc'[h] = "ipi_loop"
            /\ ipi'[h].i = ipi[h].i + 1
            /\ ~panicked'
C15_AllAttempted ==
    \A h \in Harts :
        (pc[h] = "ipi_ret" /\ ipi[h].kind = "AllExceptCurrent") =>
            /\ ipi[h].fails \subseteq IpiTargets(ipi[h])
            /\ \A i \in IpiTargets(ipi[h]) :
                   \E k \in 1 .. Len(ipi[h].sends) : MaskHas(ipi[h].sends[k].mask, i)
            /\ \A k, l \in 1 .. Len(ipi[h].sends) :
                   ipi[h].sends[k] = ipi[h].sends[l] => k = l
            /\ ~panicked
C15_FailureKeepsGoing == [][C15_Step]_vars /\ []C15_AllAttempted
C15_Witness ==
    \E h \in Harts :
        /\ pc[h] = "ipi_ret"
        /\ ipi[h].kind = "AllExceptCurrent"
        /\ ipi[h].cpu_num = 4
        /\ ipi[h].cpu_id = 1
        /\ ipi[h].fails = {0, 2}
        /\ Len(ipi[h].sends) = 3

\* C16: the controller context of the hart with logical id h is 2 * (h + 1);
\* distinct harts never share a context, no hart has context 0, and a hart
\* that changes the enable bits or the claim state of a context (init, enable,
\* disable, claim, complete) changes those of its own context only.
C16_Mapping ==
    /\ \A h \in Harts : this_context(h) = 2 * (h + 1) /\ this_context(h) # 0
    /\ \A h, g \in Harts : this_context(h) = this_context(g) => h = g
C16_Step ==
    \A c \in DOMAIN plic.enable :
        (plic'.enable[c] # plic.enable[c] \/ plic'.inflight[c] # plic.inflight[c]) =>
            /\ PLIC_lock \in Harts
            /\ c = 2 * (PLIC_lock + 1)
C16_ContextAddressing == []C16_Mapping /\ [][C16_Step]_vars
C16_Witness ==
    \E h, g \in Harts :
        /\ h # g
        /\ \E n \in Sources : plic.enable[2 * (h + 1)][n]
        /\ \E n \in Sources : plic.enable[2 * (g + 1)][n]
        /\ plic.inflight[2 * (h + 1)] # 0

\* positions at which a hart reads or writes the controller
CriticalPcs == {"init_ctx", "se_crit", "h_claim", "h_dispatch", "h_complete"}

\* C17: every access to the controller is made by the hart that holds the
\* controller lock, at most one hart is inside a critical section, and the
\* holder has its local interrupts disabled for as long as it holds the lock,
\* so that no trap enters handle on it.
C17_Held ==
    /\ \A h \in Harts : pc[h] \in CriticalPcs => PLIC_lock = h
    /\ \A h, g \in Harts : (pc[h] \in CriticalPcs /\ pc[g] \in CriticalPcs) => h = g
    /\ \A h \in Harts : PLIC_lock = h => irq_off[h] >= 1
C17_Step ==
    /\ plic' # plic => (PLIC_lock \in Harts /\ pc[PLIC_lock] \in CriticalPcs)
    /\ \A h \in Harts : StartsHandle(h) => (PLIC_lock # h /\ irq_off[h] = 0)
    /\ \A h \in Harts : (PLIC_lock = h /\ PLIC_lock' = h) => irq_off'[h] >= 1
C17_ControllerMutex == []C17_Held /\ [][C17_Step]_vars
C17_Witness ==
    \E h, g \in Harts :
        /\ h # g
        /\ PLIC_lock = h
        /\ pc[h] = "se_crit"
        /\ irq_off[h] = 1
        /\ pc[g] \in {"se_lock", "h_lock"}

\* Installed(irq) after the step
InstalledNext(irq) ==
    CASE with_cause(irq) = "S_TIMER" -> TIMER_HANDLER'
      [] with_cause(irq) = "S_SOFT" -> IPI_HANDLER'
      [] with_cause(irq) = "EX_IRQ" /\ irq.code \in TableIdx ->
             IRQ_HANDLER_TABLE'[irq.code]
      [] OTHER -> NULL
\* the register call that starts in this step on hart h takes the target
RegisterWins(h) == arg'[h].caller = "register" \/ ret'[h] = RetBool(TRUE)

\* C18: a register call for the Timer slot, the IPI slot or a device number
\* of the table succeeds exactly when the target is empty, and then the target
\* holds its handler; a call that finds the target taken returns false and
\* leaves it as it is. Of the calls racing for one empty target exactly one
\* therefore returns true, and a target never holds more than the one handler
\* of the call that won it.
C18_Step ==
    \A h \in Harts :
        (StartsRegister(h) /\ ~panicked' /\ arg'[h].irq \in Targets) =>
            LET t == arg'[h].irq
            IN  /\ RegisterWins(h) <=> Installed(t) = NULL
                /\ RegisterWins(h) => InstalledNext(t) = arg'[h].handler
                /\ ~RegisterWins(h) =>
                       /\ InstalledNext(t) = Installed(t)
                       /\ ret'[h] = RetBool(FALSE)
C18_OneHandler ==
    \A t \in Targets :
        /\ Installed(t) \in Handlers \cup {NULL}
        /\ owner[t] = Installed(t)
C18_OneWinner == [][C18_Step]_vars /\ []C18_OneHandler
C18_Witness ==
    \E h, g \in Harts :
        /\ pc[h] = "ret" /\ pc[g] = "ret"
        /\ arg[h].op = "register" /\ arg[g].op = "register"
        /\ arg[h].irq = S_TIMER /\ arg[g].irq = S_TIMER
        /\ arg[h].handler # arg[g].handler
        /\ ret[h] = RetBool(TRUE)
        /\ ret[g] = RetBool(FALSE)
        /\ TIMER_HANDLER = arg[h].handler

\* C19: the controller write of set_enable(n, e) on hart h sets the enable
\* bit of n in context 2 * (h + 1) to e and leaves the enable bit of n in
\* every other context, and every other enable bit, as it was; an unregister
\* on another hart therefore leaves n enabled in the registering context.
C19_Step ==
    \A h \in Harts :
        (pc[h] = "se_crit" /\ pc'[h] # "se_crit") =>
            LET n == arg[h].irq.code
            IN  /\ plic'.enable[2 * (h + 1)][n] = arg[h].enabled
                /\ \A c \in DOMAIN plic.enable : \A m \in DOMAIN plic.enable[c] :
                       (c # 2 * (h + 1) \/ m # n) =>
                           plic'.enable[c][m] = plic.enable[c][m]
                /\ plic'.inflight = plic.inflight
C19_EnableIsPerContext == [][C19_Step]_vars
C19_Witness ==
    \E h, g \in Harts : \E n \in Sources :
        /\ h # g
        /\ pc[g] = "ret"
        /\ arg[g].op = "unregister"
        /\ arg[g].irq = Dev(n)
        /\ ret[g].tag = "some"
        /\ IRQ_HANDLER_TABLE[n] = NULL
        /\ ~plic.enable[2 * (g + 1)][n]
        /\ plic.enable[2 * (h + 1)][n]

\* C20: handle called with a word whose interrupt bit is clear aborts and
\* invokes no handler, claims nothing and completes nothing; a handler of the
\* table is invoked only by handle(S_EXT), under the lock, for the number that
\* its claim returned.
C20_Step ==
    \A h \in Harts :
        /\ (StartsHandle(h) /\ ~hframe'[h].cause.intr) =>
               /\ panicked'
               /\ pc'[h] = "panic"
               /\ UNCHANGED <<obs, plic, PLIC_lock, TIMER_HANDLER, IPI_HANDLER,
                              IRQ_HANDLER_TABLE>>
        /\ (pc[h] # "handler" /\ pc'[h] = "handler" /\ arg[h].op = "none") =>
               \/ /\ pc[h] = "idle"
                  /\ hframe'[h].cause \in {S_TIMER, S_SOFT}
                  /\ hframe'[h].fn = Installed(hframe'[h].cause)
               \/ /\ pc[h] = "h_dispatch"
                  /\ hframe[h].cause = S_EXT
                  /\ PLIC_lock = h
                  /\ hframe[h].claimed \in Sources
                  /\ plic.inflight[this_context(h)] = hframe[h].claimed
                  /\ hframe'[h].fn = IRQ_HANDLER_TABLE[hframe[h].claimed]
C20_DeviceOnlyViaExt == [][C20_Step]_vars
C20_Witness ==
    \E h \in Harts :
        /\ pc[h] = "panic"
        /\ hframe[h].cause = Dev(1)
        /\ IRQ_HANDLER_TABLE[1] # NULL
        /\ obs[h].invoked = <<>>
        /\ \A c \in DOMAIN plic.inflight : plic.inflight[c] = 0

====
